---- MODULE Spec2Model ----
(***************************************************************************)
(* A model of watchman's C++ client connection object,                     *)
(* cppclient/WatchmanConnection.cpp: the command queue, the byte buffer    *)
(* and framer, the response dispatcher, the connect handshake, close() and *)
(* failure propagation.                                                    *)
(*                                                                         *)
(* Threads.  Caller threads call connect(), run() and close().  The event  *)
(* base thread runs the tasks handed to runInEventBaseThread in FIFO order *)
(* and the socket's callbacks (connectSuccess, connectErr,                 *)
(* readDataAvailable, readEOF, readErr, writeErr); each of these is one    *)
(* step, since they run to completion on a single thread.  The compute     *)
(* executor (cpuExecutor_) is a pool of Workers that run the               *)
(* decodeNextResponse tasks and the subscriber's failure notifications     *)
(* concurrently with everything else.                                      *)
(*                                                                         *)
(* Granularity.  A region that holds mutex_ is one step.  The accesses     *)
(* that the code makes without the mutex (run()'s test of broken_ and      *)
(* sock_, close()'s test and set of closing_, the promise fulfilment and   *)
(* the transport write of the dispatcher) are steps of their own, so that  *)
(* other threads interleave with them.                                     *)
(*                                                                         *)
(* Undefined behaviour.  Locking mutex_ on a thread that holds it          *)
(* (decodeNextResponse, line 357) either never returns or goes through;    *)
(* both outcomes are kept.  pop_front() on an empty deque and a call       *)
(* through a null sock_ end the process: crashed records which.            *)
(***************************************************************************)
EXTENDS Integers, Sequences, FiniteSets, TLC

\* ---------------------------------------------------------------- bounds
MaxCmds == 2          \* Spec: run() calls by callers and result handlers
MaxPdus == 1          \* Spec: PDUs the server puts on the wire
MaxFails == 1         \* Spec: transport failure events (EOF, read, write error)
PipeCmds == 3         \* SpecPipe: run() calls
PipePdus == 3         \* SpecPipe: PDUs sent after the handshake
PoolCmds == 2         \* SpecPool: run() calls
PoolPdus == 2         \* SpecPool: PDUs sent after the handshake
MaxChunk == 4         \* the most bytes one read event hands over
ErrCmds == 3          \* SpecErr: run() calls
ErrPdus == 3          \* SpecErr: PDUs sent after the handshake
FrameCmds == 2        \* SpecFrame: run() calls
FramePdus == 2        \* SpecFrame: PDUs sent after the handshake
FrameChunk == 8       \* SpecFrame: the most bytes one read event hands over
CloseCmds == 2        \* SpecClose: run() calls
ClosePdus == 1        \* SpecClose: PDUs sent after the handshake
MaxCloses == 2        \* SpecClose: close() calls

\* --------------------------------------------------------------- threads
Callers == {"t1", "t2"}
Workers == {"w1", "w2"}
Threads == Callers \cup Workers

\* ------------------------------------------------------------ wire format
\* A PDU is <<Magic, n, b1, ..., bn>>: a header of HdrLen bytes whose second
\* byte is the payload length.  A decodable payload is <<mask, seq>>: mask
\* is the set of top-level keys of the value as a bit mask, seq tells the
\* values apart.
Magic == 0
HdrLen == 2
KeyBit(k) ==
  CASE k = "error" -> 1
    [] k = "capabilities" -> 2
    [] k = "subscription" -> 4
    [] k = "log" -> 8
Keys == {"error", "capabilities", "subscription", "log"}
MaxMask == 15
Garbage == 99

RECURSIVE SumBits(_)
SumBits(ks) ==
  IF ks = {} THEN 0
  ELSE LET k == CHOOSE x \in ks : TRUE IN KeyBit(k) + SumBits(ks \ {k})

\* toBser on the server's side: the bytes of the PDU that carries value v.
EncodePdu(v) == <<Magic, 2, SumBits(v.keys), v.seq>>
GarbagePdu == <<Magic, 1, Garbage>>

\* decodePduLength counting the payload only.
decodePduLength_noHeader(buf) ==
  IF Len(buf) < HdrLen THEN -1 ELSE buf[2]

\* decodePduLength: needs the whole header, else std::out_of_range (-1 here).
decodePduLength(buf) ==
  IF Len(buf) < HdrLen THEN -1 ELSE HdrLen + buf[2]

\* splitNextPdu: the length of the PDU at the front of the buffer, or 0
\* when the header or the body is not there yet.
splitNextPdu(buf) ==
  IF buf = <<>> THEN 0
  ELSE LET pdu_len == decodePduLength(buf) IN
       IF pdu_len < 0 THEN 0
       ELSE IF pdu_len > Len(buf) THEN 0
       ELSE pdu_len

\* parseBser: the value of a PDU; ok = FALSE stands for the exception it
\* throws on bytes that are no BSER value.  error is the value under the
\* "error" key ("" when the key is absent).
NoValue == [ok |-> FALSE, keys |-> {}, seq |-> 0, error |-> ""]
parseBser(pdu) ==
  IF Len(pdu) = HdrLen + 2 /\ pdu[1] = Magic /\ pdu[3] \in 0..MaxMask
  THEN LET ks == {k \in Keys : (pdu[3] \div KeyBit(k)) % 2 = 1} IN
       [ok |-> TRUE, keys |-> ks, seq |-> pdu[4],
        error |-> IF "error" \in ks THEN "server" ELSE ""]
  ELSE NoValue

\* ------------------------------------------------------------ Try values
Unset == [st |-> "unset", ex |-> "", val |-> NoValue]
Value(v) == [st |-> "value", ex |-> "", val |-> v]
Exception(e) == [st |-> "exception", ex |-> e, val |-> NoValue]
ResponseError(v) == [st |-> "exception", ex |-> "WatchmanResponseError", val |-> v]

\* watchmanResponseToTry with the "error" key ignored.
watchmanResponseToTry_noError(v) == Value(v)

\* A response is an error if it contains the "error" key.
watchmanResponseToTry(v) ==
  IF "error" \in v.keys THEN ResponseError(v) ELSE Value(v)

\* kUnilateralLabels with no label in it.
isUnilateral_none(v) == FALSE

\* kUnilateralLabels, checked in order: does the value carry one of them?
isUnilateral(v) == "subscription" \in v.keys \/ "log" \in v.keys

\* The errors failQueuedCommands is called with, and those of run().
CloseErr == "WatchmanConnection::close() was called"
BrokenErr == "The connection was broken"
NoSocketErr == "No socket"
EofErr == "connection closed"
ReadErrEx == "read error"
WriteErrEx == "write error"
ConnectErrEx == "connect error"
DecodeErr == "bser decode error"
NoCallbackErr == "No unilateral callback has been installed"
NoCommandsErr == "No commands have been queued"
AlreadySatisfied == "PromiseAlreadySatisfied"
UpgradeMsg == "This watchman server has no support for capabilities"

\* --------------------------------------------------------------- state
VersionCmd == 0       \* the id of the ["version", versionArgs] command

VARIABLES
  lim,              \* the bounds of this run, never changed: see Limits
  callback_,        \* is a unilateral subscriber installed?
  sock_,            \* "null" | "set"
  closing_, broken_, decoding_,
  commandQ_,        \* sequence of command ids
  bufQ_,            \* sequence of bytes
  mutex_,           \* "free", or the thread that holds it for good
  promise,          \* command id -> Try: the QueuedCommand's promise
  connectPromise_,  \* Try
  connectPc,        \* connect(): "none" | "resolving" | "queued" | "run_push"
  transport,        \* the socket: "none" | "connecting" | "up" | "failed" | "closed"
  ebQ,              \* tasks queued on the event base, FIFO
  triggers,         \* decodeNextResponse tasks queued on cpuExecutor_
  cbQ,              \* subscriber failure notifications queued on cpuExecutor_
  pc,               \* thread -> position
  tcmd,             \* thread -> the command of the run() it is in
  wcmd,             \* worker -> the command it is dispatching or writing
  wval,             \* worker -> the decoded response it holds
  wire,             \* bytes sent by the server and not yet read
  crashed,          \* "" or the undefined behaviour that ended the process
  \* history
  nextCmd,          \* commands created so far by run()
  ncloses,          \* close() calls so far
  nfails,           \* transport failure events so far
  writeErrs,        \* writeErr callbacks so far
  enq,              \* commands in the order they entered commandQ_
  written,          \* commands in the order they were written to the socket
  sent,             \* the values of the PDUs the server sent, in order
  early,            \* did the server answer a command that was not written yet?
  log,              \* deliveries to result slots and to the subscriber, in order
  dupSets,          \* attempts to fulfil an already fulfilled QueuedCommand promise
  connectSets,      \* attempts to fulfil connectPromise_
  skipped           \* decodeNextResponse tasks that found decoding_ set

vars == <<lim, callback_, sock_, closing_, broken_, decoding_, commandQ_, bufQ_,
          mutex_, promise, connectPromise_, connectPc, transport, ebQ, triggers,
          cbQ, pc, tcmd, wcmd, wval, wire, crashed, nextCmd, ncloses, nfails,
          writeErrs, enq, written, sent, early, log, dupSets, connectSets, skipped>>

connVars == <<sock_, closing_, broken_, decoding_, commandQ_, bufQ_, mutex_>>
histVars == <<nextCmd, ncloses, nfails, writeErrs, enq, written, sent, early, log,
              dupSets, connectSets, skipped>>

Range(s) == {s[i] : i \in 1..Len(s)}
Min(a, b) == IF a < b THEN a ELSE b

Alive == crashed = ""
\* A delivery: to a command's result slot or to the subscriber, by the
\* dispatcher ("dispatch"), by failQueuedCommands ("fail"), by run() itself
\* ("run") or by a queued failure notification ("notify").
Slot(c, t, by) == [to |-> "slot", cmd |-> c, try |-> t, by |-> by]
Sub(t, by) == [to |-> "sub", cmd |-> -1, try |-> t, by |-> by]
SendTask == [op |-> "send", t |-> "eb"]
\* The event base thread runs one task or callback at a time: it is free
\* unless it is inside connectSuccess, between the two steps of run().
EbFree == connectPc # "run_push"

\* failQueuedCommands fulfils the promises inside the scope of its
\* lock_guard (lines 199-208): its deliveries are made with mutex_ held.
\* Those of the dispatcher (line 366) and of run() (lines 169-174) are not.
UnderMutex(e) == e.by = "fail"

\* -------------------------------------------------- the decisions of the code
\* run() with the test of broken_ and sock_ left out.
runRejects_none(broken, sock) == ""

\* run(), lines 168-176: the error run() fails with at once, "" if it goes on.
runRejects(broken, sock) ==
  IF broken THEN BrokenErr
  ELSE IF sock = "null" THEN NoSocketErr
  ELSE ""

\* run() scheduling a send for every command.
shouldWrite_always(q) == TRUE

\* run(), line 184: shouldWrite = commandQ_.empty().
shouldWrite(q) == q = <<>>

\* The dispatcher taking the newest command instead of the oldest.
front_back(q) == q[Len(q)]

\* commandQ_.front(), lines 234 and 361.
front(q) == Head(q)

\* failQueuedCommands notifying the subscriber whatever closing_ says.
notifySubscriber_always(cb, closing) == cb

\* failQueuedCommands, line 211: callback_ && !closing_.
notifySubscriber(cb, closing) == cb /\ ~closing

\* decodeNextResponse without the test of decoding_.
alreadyDecoding_never(d) == FALSE

\* decodeNextResponse, line 311: if (decoding_) return.
alreadyDecoding(d) == d

\* The continuation looking for "capabilities" in error responses too and
\* writing its own message over the server's.
connectResult_overwrite(t) ==
  IF t.val.ok /\ "capabilities" \notin t.val.keys
  THEN ResponseError([t.val EXCEPT !.keys = @ \cup {"error"}, !.error = UpgradeMsg])
  ELSE t

\* The continuation treating every response as a handshake success.
connectResult_noCheck(t) == t

\* connectSuccess, lines 135-148: what the continuation of run(versionCmd_)
\* gives connectPromise_ for the result t of the version command.
connectResult(t) ==
  IF t.st = "value" /\ "capabilities" \notin t.val.keys
  THEN watchmanResponseToTry(
         [t.val EXCEPT !.keys = @ \cup {"error"}, !.error = UpgradeMsg])
  ELSE t

\* The continuation of run(versionCmd_) runs where the version command's
\* promise is fulfilled: done says whether this step fulfils it, with t.
ThenConnect(done, t) ==
  /\ connectPromise_' =
       IF done /\ connectPromise_.st = "unset" THEN connectResult(t)
       ELSE connectPromise_
  /\ connectSets' = IF done THEN connectSets + 1 ELSE connectSets

RECURSIVE FailLog(_, _)
FailLog(q, ex) ==
  IF q = <<>> THEN <<>>
  ELSE (IF promise[Head(q)].st = "unset"
        THEN <<Slot(Head(q), Exception(ex), "fail")>> ELSE <<>>) \o FailLog(Tail(q), ex)

\* failQueuedCommands(ex), lines 197-217.  It changes commandQ_, broken_,
\* promise, log, connectPromise_, connectSets and cbQ.
failQueuedCommands(ex) ==
  /\ mutex_ = "free"
  /\ commandQ_' = <<>>
  /\ broken_' = TRUE
  /\ promise' = [c \in DOMAIN promise |->
                   IF c \in Range(commandQ_) /\ promise[c].st = "unset"
                   THEN Exception(ex) ELSE promise[c]]
  /\ log' = log \o FailLog(commandQ_, ex)
  /\ ThenConnect(VersionCmd \in Range(commandQ_)
                   /\ promise[VersionCmd].st = "unset", Exception(ex))
  /\ cbQ' = IF notifySubscriber(callback_, closing_) THEN Append(cbQ, ex) ELSE cbQ

\* ------------------------------------------------------------- connect()
\* connect(), lines 81-88: getSockPath() is started.
Connect(t) ==
  /\ Alive /\ t \in Callers \cap lim.threads /\ pc[t] = "idle" /\ connectPc = "none"
  /\ connectPc' = "resolving"
  /\ UNCHANGED <<lim, callback_, connVars, promise, connectPromise_, transport, ebQ,
                 triggers, cbQ, pc, tcmd, wcmd, wval, wire, crashed, histVars>>

\* connect(), lines 88-97: the socket path is known, the connect task is
\* handed to the event base.
PathResolved ==
  /\ Alive /\ connectPc = "resolving"
  /\ connectPc' = "queued"
  /\ ebQ' = Append(ebQ, [op |-> "connect", t |-> "eb"])
  /\ UNCHANGED <<lim, callback_, connVars, promise, connectPromise_, transport,
                 triggers, cbQ, pc, tcmd, wcmd, wval, wire, crashed, histVars>>

\* The connect task, lines 89-95: sock_ is created and asked to connect.
EbConnect ==
  /\ Alive /\ EbFree /\ ebQ # <<>> /\ Head(ebQ).op = "connect"
  /\ ebQ' = Tail(ebQ)
  /\ sock_' = "set"
  /\ transport' = "connecting"
  /\ UNCHANGED <<lim, callback_, closing_, broken_, decoding_, commandQ_, bufQ_,
                 mutex_, promise, connectPromise_, connectPc, triggers, cbQ, pc,
                 tcmd, wcmd, wval, wire, crashed, histVars>>

\* connectErr, lines 158-161.
ConnectErr ==
  /\ Alive /\ EbFree /\ transport = "connecting" /\ sock_ = "set"
  /\ transport' = "failed"
  /\ connectPromise_' =
       IF connectPromise_.st = "unset" THEN Exception(ConnectErrEx) ELSE connectPromise_
  /\ connectSets' = connectSets + 1
  /\ UNCHANGED <<lim, callback_, connVars, promise, connectPc, ebQ, triggers, cbQ,
                 pc, tcmd, wcmd, wval, wire, crashed, nextCmd, ncloses, nfails,
                 writeErrs, enq, written, sent, early, log, dupSets,
                 skipped>>

\* connectSuccess, lines 129-148 with run(), lines 167-176: the read
\* callback is installed and run(versionCmd_) is called on the event base
\* thread; run() tests broken_ and sock_ without the mutex.
ConnectSuccess ==
  /\ Alive /\ EbFree /\ transport = "connecting" /\ sock_ = "set"
  /\ VersionCmd \notin DOMAIN promise
  /\ transport' = "up"
  /\ LET why == runRejects(broken_, sock_) IN
     IF why # ""
     THEN /\ promise' = (VersionCmd :> Exception(why)) @@ promise
          /\ log' = Append(log, Slot(VersionCmd, Exception(why), "run"))
          /\ ThenConnect(TRUE, Exception(why))
          /\ UNCHANGED connectPc
     ELSE /\ promise' = (VersionCmd :> Unset) @@ promise
          /\ connectPc' = "run_push"
          /\ UNCHANGED <<log, connectPromise_, connectSets>>
  /\ UNCHANGED <<lim, callback_, connVars, ebQ, triggers, cbQ, pc, tcmd, wcmd, wval,
                 wire, crashed, nextCmd, ncloses, nfails, writeErrs, enq, written,
                 sent, early, dupSets, skipped>>

\* run(versionCmd_), lines 178-193, still inside connectSuccess: under the
\* mutex the version command joins the queue, and a send is scheduled if
\* the queue was empty.
ConnectRunPush ==
  /\ Alive /\ connectPc = "run_push" /\ mutex_ = "free"
  /\ commandQ_' = Append(commandQ_, VersionCmd)
  /\ enq' = Append(enq, VersionCmd)
  /\ ebQ' = IF shouldWrite(commandQ_) THEN Append(ebQ, SendTask) ELSE ebQ
  /\ connectPc' = "queued"
  /\ UNCHANGED <<lim, callback_, sock_, closing_, broken_, decoding_, bufQ_, mutex_,
                 promise, connectPromise_, transport, triggers, cbQ, pc, tcmd, wcmd,
                 wval, wire, crashed, nextCmd, ncloses, nfails, writeErrs, written,
                 sent, early, log, dupSets, connectSets, skipped>>

\* ------------------------------------------------------------------ run()
\* A caller may call run() when it is idle; a worker calls it from the
\* handler of the result it has just delivered (pc = "pop").
CanCall(t) == t \in lim.threads /\ pc[t] = (IF t \in Callers THEN "idle" ELSE "pop")
AfterPush(t) == IF t \in Callers THEN "idle" ELSE "pop"

\* run(), lines 167-176: the command is created, broken_ and sock_ are
\* tested without the mutex.
RunCheck(t) ==
  /\ Alive /\ CanCall(t) /\ nextCmd < lim.cmds
  /\ LET c == nextCmd + 1
         why == runRejects(broken_, sock_) IN
     /\ nextCmd' = c
     /\ IF why # ""
        THEN /\ promise' = (c :> Exception(why)) @@ promise
             /\ log' = Append(log, Slot(c, Exception(why), "run"))
             /\ UNCHANGED <<pc, tcmd>>
        ELSE /\ promise' = (c :> Unset) @@ promise
             /\ pc' = [pc EXCEPT ![t] = "run_push"]
             /\ tcmd' = [tcmd EXCEPT ![t] = c]
             /\ UNCHANGED log
  /\ UNCHANGED <<lim, callback_, connVars, connectPromise_, connectPc, transport,
                 ebQ, triggers, cbQ, wcmd, wval, wire, crashed, ncloses, nfails,
                 writeErrs, enq, written, sent, early, dupSets, connectSets,
                 skipped>>

\* run(), lines 178-193: under the mutex the command joins the queue; a
\* send is scheduled on the event base if the queue was empty.
RunPush(t) ==
  /\ Alive /\ pc[t] = "run_push" /\ mutex_ = "free"
  /\ commandQ_' = Append(commandQ_, tcmd[t])
  /\ enq' = Append(enq, tcmd[t])
  /\ ebQ' = IF shouldWrite(commandQ_) THEN Append(ebQ, SendTask) ELSE ebQ
  /\ pc' = [pc EXCEPT ![t] = AfterPush(t)]
  /\ UNCHANGED <<lim, callback_, sock_, closing_, broken_, decoding_, bufQ_, mutex_,
                 promise, connectPromise_, connectPc, transport, triggers, cbQ,
                 tcmd, wcmd, wval, wire, crashed, nextCmd, ncloses, nfails,
                 writeErrs, written, sent, early, log, dupSets, connectSets,
                 skipped>>

\* ---------------------------------------------------------------- close()
\* close(), lines 103-105: the test of closing_.
CloseCheck(t) ==
  /\ Alive /\ t \in Callers \cap lim.threads /\ pc[t] = "idle" /\ ncloses < lim.closes
  /\ ncloses' = ncloses + 1
  /\ pc' = IF closing_ THEN pc ELSE [pc EXCEPT ![t] = "close_set"]
  /\ UNCHANGED <<lim, callback_, connVars, promise, connectPromise_, connectPc,
                 transport, ebQ, triggers, cbQ, tcmd, wcmd, wval, wire, crashed,
                 nextCmd, nfails, writeErrs, enq, written, sent, early, log,
                 dupSets, connectSets,
                 skipped>>

\* close(), lines 106-112: closing_ is set; with a socket, its teardown is
\* handed to the event base and waited for.
CloseSet(t) ==
  /\ Alive /\ pc[t] = "close_set"
  /\ closing_' = TRUE
  /\ IF sock_ = "set"
     THEN /\ ebQ' = Append(ebQ, [op |-> "teardown", t |-> t])
          /\ pc' = [pc EXCEPT ![t] = "close_wait"]
     ELSE /\ pc' = [pc EXCEPT ![t] = "close_fail"]
          /\ UNCHANGED ebQ
  /\ UNCHANGED <<lim, callback_, sock_, broken_, decoding_, commandQ_, bufQ_, mutex_,
                 promise, connectPromise_, connectPc, transport, triggers, cbQ,
                 tcmd, wcmd, wval, wire, crashed, histVars>>

\* The teardown task, lines 108-111: sock_->close(); sock_.reset().
EbTeardown ==
  /\ Alive /\ EbFree /\ ebQ # <<>> /\ Head(ebQ).op = "teardown"
  /\ ebQ' = Tail(ebQ)
  /\ IF sock_ = "null"
     THEN /\ crashed' = "null sock_ in close"
          /\ UNCHANGED <<sock_, transport, pc>>
     ELSE /\ sock_' = "null"
          /\ transport' = "closed"
          /\ pc' = [pc EXCEPT ![Head(ebQ).t] = "close_fail"]
          /\ UNCHANGED crashed
  /\ UNCHANGED <<lim, callback_, closing_, broken_, decoding_, commandQ_, bufQ_,
                 mutex_, promise, connectPromise_, connectPc, triggers, cbQ, tcmd,
                 wcmd, wval, wire, histVars>>

\* close(), lines 113-115: failQueuedCommands("close() was called").
CloseFail(t) ==
  /\ Alive /\ pc[t] = "close_fail"
  /\ failQueuedCommands(CloseErr)
  /\ pc' = [pc EXCEPT ![t] = "idle"]
  /\ UNCHANGED <<lim, callback_, sock_, closing_, decoding_, bufQ_, mutex_, connectPc,
                 transport, ebQ, triggers, tcmd, wcmd, wval, wire, crashed, nextCmd,
                 ncloses, nfails, writeErrs, enq, written, sent, early, dupSets,
                 skipped>>

\* ---------------------------------------------------------- sendCommand()
\* The sendCommand() task scheduled by run(), lines 220-238, on the event
\* base thread.
EbSendCommand ==
  /\ Alive /\ EbFree /\ ebQ # <<>> /\ Head(ebQ).op = "send" /\ mutex_ = "free"
  /\ ebQ' = Tail(ebQ)
  /\ IF commandQ_ = <<>>
     THEN UNCHANGED <<written, crashed>>
     ELSE IF sock_ = "null"
          THEN /\ crashed' = "null sock_ in sendCommand"
               /\ UNCHANGED written
          ELSE /\ written' = Append(written, front(commandQ_))
               /\ UNCHANGED crashed
  /\ UNCHANGED <<lim, callback_, connVars, promise, connectPromise_, connectPc,
                 transport, triggers, cbQ, pc, tcmd, wcmd, wval, wire, nextCmd,
                 ncloses, nfails, writeErrs, enq, sent, early, log, dupSets,
                 connectSets,
                 skipped>>

\* ------------------------------------------------------------ the server
\* What the server sends is a unilateral event or the response to a command.
IsEvent(v) == v.keys \cap {"subscription", "log"} # {}
IsResponse(v) == v.ok /\ ~IsEvent(v)
NResponses(s) == Cardinality({i \in 1..Len(s) : IsResponse(s[i])})

\* ------------------------------------------------- the socket's callbacks
\* writeErr, lines 250-254: a write that was issued, and that the server
\* has not answered, fails.
WriteErr ==
  /\ Alive /\ EbFree /\ sock_ = "set" /\ transport \in {"up", "failed"}
  /\ nfails < lim.fails /\ writeErrs + NResponses(sent) < Len(written)
  /\ failQueuedCommands(WriteErrEx)
  /\ transport' = "failed"
  /\ nfails' = nfails + 1
  /\ writeErrs' = writeErrs + 1
  /\ UNCHANGED <<lim, callback_, sock_, closing_, decoding_, bufQ_, mutex_, connectPc,
                 ebQ, triggers, pc, tcmd, wcmd, wval, wire, crashed, nextCmd,
                 ncloses, enq, written, sent, early, dupSets,
                 skipped>>

\* readEOF, lines 381-384.
ReadEOF ==
  /\ Alive /\ EbFree /\ sock_ = "set" /\ transport = "up" /\ nfails < lim.fails
  /\ failQueuedCommands(EofErr)
  /\ transport' = "failed"
  /\ nfails' = nfails + 1
  /\ UNCHANGED <<lim, callback_, sock_, closing_, decoding_, bufQ_, mutex_, connectPc,
                 ebQ, triggers, pc, tcmd, wcmd, wval, wire, crashed, nextCmd,
                 ncloses, writeErrs, enq, written, sent, early, dupSets,
                 skipped>>

\* readErr, lines 387-390.
ReadErr ==
  /\ Alive /\ EbFree /\ sock_ = "set" /\ transport = "up" /\ nfails < lim.fails
  /\ failQueuedCommands(ReadErrEx)
  /\ transport' = "failed"
  /\ nfails' = nfails + 1
  /\ UNCHANGED <<lim, callback_, sock_, closing_, decoding_, bufQ_, mutex_, connectPc,
                 ebQ, triggers, pc, tcmd, wcmd, wval, wire, crashed, nextCmd,
                 ncloses, writeErrs, enq, written, sent, early, dupSets,
                 skipped>>

\* getReadBuffer and readDataAvailable(len), lines 257-272: len bytes join
\* bufQ_ under the mutex, a decodeNextResponse task goes to cpuExecutor_.
ReadDataAvailable(len) ==
  /\ Alive /\ EbFree /\ sock_ = "set" /\ transport = "up" /\ mutex_ = "free"
  /\ len \in 1..Min(Len(wire), lim.chunk)
  /\ lim.whole => len = Min(Len(wire), lim.chunk)
  /\ bufQ_' = bufQ_ \o SubSeq(wire, 1, len)
  /\ wire' = SubSeq(wire, len + 1, Len(wire))
  /\ triggers' = triggers + 1
  /\ UNCHANGED <<lim, callback_, sock_, closing_, broken_, decoding_, commandQ_,
                 mutex_, promise, connectPromise_, connectPc, transport, ebQ, cbQ,
                 pc, tcmd, wcmd, wval, crashed, histVars>>

\* The server sends a PDU: a value with the keys ks, or bytes that are no
\* BSER value.  A command response is early when every command written so
\* far has had its response sent.

ServerSend(ks) ==
  /\ Alive /\ transport = "up" /\ Len(sent) < lim.pdus /\ ks \in lim.kinds
  /\ LET v == [ok |-> TRUE, keys |-> ks, seq |-> Len(sent) + 1,
               error |-> IF "error" \in ks THEN "server" ELSE ""] IN
     /\ wire' = wire \o EncodePdu(v)
     /\ sent' = Append(sent, v)
     /\ early' = (early \/ (IsResponse(v) /\ NResponses(sent) >= Len(written)))
  /\ UNCHANGED <<lim, callback_, connVars, promise, connectPromise_, connectPc,
                 transport, ebQ, triggers, cbQ, pc, tcmd, wcmd, wval, crashed,
                 nextCmd, ncloses, nfails, writeErrs, enq, written, log, dupSets,
                 connectSets,
                 skipped>>

ServerGarbage ==
  /\ Alive /\ transport = "up" /\ Len(sent) < lim.pdus /\ lim.garbage
  /\ wire' = wire \o GarbagePdu
  /\ sent' = Append(sent, NoValue)
  /\ UNCHANGED <<lim, callback_, connVars, promise, connectPromise_, connectPc,
                 transport, ebQ, triggers, cbQ, pc, tcmd, wcmd, wval, crashed,
                 nextCmd, ncloses, nfails, writeErrs, enq, written, early, log,
                 dupSets, connectSets,
                 skipped>>

\* ------------------------------------------------- decodeNextResponse()
\* decodeNextResponse, lines 309-315: a task of cpuExecutor_ starts on
\* worker w; it goes on only if no other instance is decoding.
DecodeStart(w) ==
  /\ Alive /\ w \in Workers \cap lim.threads /\ pc[w] = "idle" /\ triggers > 0
  /\ mutex_ = "free"
  /\ triggers' = triggers - 1
  /\ IF alreadyDecoding(decoding_)
     THEN /\ skipped' = skipped + 1
          /\ UNCHANGED <<decoding_, pc>>
     ELSE /\ decoding_' = TRUE
          /\ pc' = [pc EXCEPT ![w] = "loop"]
          /\ UNCHANGED skipped
  /\ UNCHANGED <<lim, callback_, sock_, closing_, broken_, commandQ_, bufQ_, mutex_,
                 promise, connectPromise_, connectPc, transport, ebQ, cbQ, tcmd,
                 wcmd, wval, wire, crashed, nextCmd, ncloses,
                 nfails, writeErrs, enq, written, sent, early, log, dupSets,
                 connectSets>>

\* Lines 322-349: splitNextPdu() under the mutex, then parseBser and the
\* test for a unilateral value, which goes to the subscriber.
SplitNext(w) ==
  /\ Alive /\ pc[w] = "loop" /\ mutex_ = "free"
  /\ LET n == splitNextPdu(bufQ_)
         decoded == parseBser(SubSeq(bufQ_, 1, n)) IN
     IF n = 0
     THEN /\ pc' = [pc EXCEPT ![w] = "exit"]
          /\ UNCHANGED <<bufQ_, wval, commandQ_, broken_, promise, log,
                         connectPromise_, connectSets, cbQ>>
     ELSE /\ bufQ_' = SubSeq(bufQ_, n + 1, Len(bufQ_))
          /\ IF ~decoded.ok
             THEN /\ failQueuedCommands(DecodeErr)
                  /\ pc' = [pc EXCEPT ![w] = "exit"]
                  /\ UNCHANGED wval
             ELSE IF isUnilateral(decoded)
             THEN IF callback_
                  THEN /\ log' = Append(log, Sub(watchmanResponseToTry(decoded), "dispatch"))
                       /\ UNCHANGED <<pc, wval, commandQ_, broken_, promise,
                                      connectPromise_, connectSets, cbQ>>
                  ELSE /\ failQueuedCommands(NoCallbackErr)
                       /\ pc' = [pc EXCEPT ![w] = "exit"]
                       /\ UNCHANGED wval
             ELSE /\ wval' = [wval EXCEPT ![w] = decoded]
                  /\ pc' = [pc EXCEPT ![w] = "resp"]
                  /\ UNCHANGED <<commandQ_, broken_, promise, log, connectPromise_,
                                 connectSets, cbQ>>
  /\ UNCHANGED <<lim, callback_, sock_, closing_, decoding_, mutex_, connectPc,
                 transport, ebQ, triggers, tcmd, wcmd, wire, crashed, nextCmd,
                 ncloses, nfails, writeErrs, enq, written, sent, early, dupSets,
                 skipped>>

\* Lines 353-362: under the mutex, the head of the queue is taken.  With an
\* empty queue failQueuedCommands is called with the mutex held, and locks
\* it again: the worker either hangs there for good or gets through.
FetchHead(w) ==
  /\ Alive /\ pc[w] = "resp" /\ mutex_ = "free"
  /\ IF commandQ_ = <<>>
     THEN \/ /\ mutex_' = w
             /\ pc' = [pc EXCEPT ![w] = "hung"]
             /\ UNCHANGED <<wcmd, commandQ_, broken_, promise, log, connectPromise_,
                            connectSets, cbQ>>
          \/ /\ failQueuedCommands(NoCommandsErr)
             /\ pc' = [pc EXCEPT ![w] = "exit"]
             /\ UNCHANGED <<wcmd, mutex_>>
     ELSE /\ wcmd' = [wcmd EXCEPT ![w] = front(commandQ_)]
          /\ pc' = [pc EXCEPT ![w] = "set"]
          /\ UNCHANGED <<mutex_, commandQ_, broken_, promise, log, connectPromise_,
                         connectSets, cbQ>>
  /\ UNCHANGED <<lim, callback_, sock_, closing_, decoding_, bufQ_, connectPc,
                 transport, ebQ, triggers, tcmd, wval, wire, crashed, nextCmd,
                 ncloses, nfails, writeErrs, enq, written, sent, early, dupSets,
                 skipped>>

\* Line 366: the promise of the command is fulfilled without the mutex.  A
\* promise that is fulfilled already throws, and the catch of line 373
\* calls failQueuedCommands.
SetTry(w) ==
  /\ Alive /\ pc[w] = "set"
  /\ LET c == wcmd[w]
         t == watchmanResponseToTry(wval[w]) IN
     IF promise[c].st = "unset"
     THEN /\ promise' = [promise EXCEPT ![c] = t]
          /\ log' = Append(log, Slot(c, t, "dispatch"))
          /\ ThenConnect(c = VersionCmd, t)
          /\ pc' = [pc EXCEPT ![w] = "pop"]
          /\ UNCHANGED <<commandQ_, broken_, cbQ, dupSets>>
     ELSE /\ dupSets' = dupSets + 1
          /\ failQueuedCommands(AlreadySatisfied)
          /\ pc' = [pc EXCEPT ![w] = "exit"]
  /\ UNCHANGED <<lim, callback_, sock_, closing_, decoding_, bufQ_, mutex_, connectPc,
                 transport, ebQ, triggers, tcmd, wcmd, wval, wire, crashed, nextCmd,
                 ncloses, nfails, writeErrs, enq, written, sent, early,
                 skipped>>

\* Line 372 and lines 223-235: popAndSendCommand() pops the head under the
\* mutex and takes the next command, if any.
PopAndSend(w) ==
  /\ Alive /\ pc[w] = "pop" /\ mutex_ = "free"
  /\ IF commandQ_ = <<>>
     THEN /\ crashed' = "pop_front on empty commandQ_"
          /\ UNCHANGED <<commandQ_, pc, wcmd>>
     ELSE /\ commandQ_' = Tail(commandQ_)
          /\ UNCHANGED crashed
          /\ IF Tail(commandQ_) = <<>>
             THEN /\ pc' = [pc EXCEPT ![w] = "loop"]
                  /\ UNCHANGED wcmd
             ELSE /\ pc' = [pc EXCEPT ![w] = "write"]
                  /\ wcmd' = [wcmd EXCEPT ![w] = front(Tail(commandQ_))]
  /\ UNCHANGED <<lim, callback_, sock_, closing_, broken_, decoding_, bufQ_, mutex_,
                 promise, connectPromise_, connectPc, transport, ebQ, triggers, cbQ,
                 tcmd, wval, wire, histVars>>

\* Line 237, from the dispatcher: sock_->writeChain without the mutex.
Write(w) ==
  /\ Alive /\ pc[w] = "write"
  /\ IF sock_ = "null"
     THEN /\ crashed' = "null sock_ in sendCommand"
          /\ UNCHANGED <<written, pc>>
     ELSE /\ written' = Append(written, wcmd[w])
          /\ pc' = [pc EXCEPT ![w] = "loop"]
          /\ UNCHANGED crashed
  /\ UNCHANGED <<lim, callback_, connVars, promise, connectPromise_, connectPc,
                 transport, ebQ, triggers, cbQ, tcmd, wcmd, wval, wire, nextCmd,
                 ncloses, nfails, writeErrs, enq, sent, early, log, dupSets,
                 connectSets,
                 skipped>>

\* SCOPE_EXIT, lines 317-320: decoding_ is cleared under the mutex.
DecodeExit(w) ==
  /\ Alive /\ pc[w] = "exit" /\ mutex_ = "free"
  /\ decoding_' = FALSE
  /\ pc' = [pc EXCEPT ![w] = "idle"]
  /\ UNCHANGED <<lim, callback_, sock_, closing_, broken_, commandQ_, bufQ_, mutex_,
                 promise, connectPromise_, connectPc, transport, ebQ, triggers, cbQ,
                 tcmd, wcmd, wval, wire, crashed, histVars>>

\* Lines 213-215: a failure notification queued by failQueuedCommands runs
\* on cpuExecutor_.
CallbackTask ==
  /\ Alive /\ cbQ # <<>>
  /\ cbQ' = Tail(cbQ)
  /\ log' = Append(log, Sub(Exception(Head(cbQ)), "notify"))
  /\ UNCHANGED <<lim, callback_, connVars, promise, connectPromise_, connectPc,
                 transport, ebQ, triggers, pc, tcmd, wcmd, wval, wire, crashed,
                 nextCmd, ncloses, nfails, writeErrs, enq, written, sent, early,
                 dupSets, connectSets,
                 skipped>>

\* ------------------------------------------------------- specifications
\* The bounds of a run: the number of run() calls, of PDUs sent, of
\* transport failures and of close() calls, the key sets the server uses,
\* whether it sends undecodable bytes, the threads that take part (a worker
\* in threads calls run() from result handlers too), whether a read event
\* hands over all the bytes that are waiting, and the most it hands over.
Limits(c, p, f, cl, ks, g, th, wh, ch) ==
  [cmds |-> c, pdus |-> p, fails |-> f, closes |-> cl, kinds |-> ks,
   garbage |-> g, threads |-> th, whole |-> wh, chunk |-> ch]

Plain == {}
Caps == {"capabilities"}
Err == {"error"}
Event == {"subscription"}
ErrCaps == {"error", "capabilities"}
AllKinds == {Plain, Caps, Err, Event, ErrCaps}

\* The state after construction (lines 27-39).
InitWith(l, cb) ==
  /\ lim = l
  /\ callback_ \in cb
  /\ sock_ = "null" /\ closing_ = FALSE /\ broken_ = FALSE /\ decoding_ = FALSE
  /\ commandQ_ = <<>> /\ bufQ_ = <<>> /\ mutex_ = "free"
  /\ promise = <<>> /\ connectPromise_ = Unset
  /\ connectPc = "none" /\ transport = "none"
  /\ ebQ = <<>> /\ triggers = 0 /\ cbQ = <<>>
  /\ pc = [t \in Threads |-> "idle"]
  /\ tcmd = [t \in Threads |-> -1]
  /\ wcmd = [w \in Workers |-> -1]
  /\ wval = [w \in Workers |-> NoValue]
  /\ wire = <<>> /\ crashed = ""
  /\ nextCmd = 0 /\ ncloses = 0 /\ nfails = 0 /\ writeErrs = 0
  /\ enq = <<>> /\ written = <<>> /\ sent = <<>> /\ early = FALSE
  /\ log = <<>> /\ dupSets = 0 /\ connectSets = 0 /\ skipped = 0

\* The state after connect() has succeeded: the version command was
\* written, the server answered it with capabilities, the answer was read
\* and dispatched, and every thread is idle again.
Hello == [ok |-> TRUE, keys |-> Caps, seq |-> 1, error |-> ""]
Ready ==
  /\ sock_ = "set" /\ closing_ = FALSE /\ broken_ = FALSE /\ decoding_ = FALSE
  /\ commandQ_ = <<>> /\ bufQ_ = <<>> /\ mutex_ = "free"
  /\ promise = (VersionCmd :> Value(Hello)) /\ connectPromise_ = Value(Hello)
  /\ connectPc = "queued" /\ transport = "up"
  /\ ebQ = <<>> /\ triggers = 0 /\ cbQ = <<>>
  /\ pc = [t \in Threads |-> "idle"]
  /\ tcmd = [t \in Threads |-> -1]
  /\ wcmd = [w \in Workers |-> VersionCmd]
  /\ wval = [w \in Workers |-> Hello]
  /\ wire = <<>> /\ crashed = ""
  /\ nextCmd = 0 /\ ncloses = 0 /\ nfails = 0 /\ writeErrs = 0
  /\ enq = <<VersionCmd>> /\ written = <<VersionCmd>> /\ sent = <<Hello>>
  /\ early = FALSE
  /\ log = <<Slot(VersionCmd, Value(Hello), "dispatch")>> /\ dupSets = 0
  /\ connectSets = 1 /\ skipped = 0

ReadyWith(l, cb) == lim = l /\ callback_ \in cb /\ Ready

Init ==
  InitWith(Limits(MaxCmds, MaxPdus, MaxFails, 1, {Plain, Caps, Err, ErrCaps}, TRUE,
                  {"t1", "w1"}, TRUE, MaxChunk), BOOLEAN)

Next ==
  \/ \E t \in Callers : Connect(t)
  \/ PathResolved
  \/ EbConnect
  \/ ConnectErr
  \/ ConnectSuccess
  \/ ConnectRunPush
  \/ \E t \in Threads : RunCheck(t)
  \/ \E t \in Threads : RunPush(t)
  \/ \E t \in Callers : CloseCheck(t)
  \/ \E t \in Callers : CloseSet(t)
  \/ EbTeardown
  \/ \E t \in Callers : CloseFail(t)
  \/ EbSendCommand
  \/ WriteErr
  \/ ReadEOF
  \/ ReadErr
  \/ \E len \in 1..lim.chunk : ReadDataAvailable(len)
  \/ \E ks \in AllKinds : ServerSend(ks)
  \/ ServerGarbage
  \/ \E w \in Workers : DecodeStart(w)
  \/ \E w \in Workers : SplitNext(w)
  \/ \E w \in Workers : FetchHead(w)
  \/ \E w \in Workers : SetTry(w)
  \/ \E w \in Workers : PopAndSend(w)
  \/ \E w \in Workers : Write(w)
  \/ \E w \in Workers : DecodeExit(w)
  \/ CallbackTask

Spec == Init /\ [][Next]_vars

\* No close(), no transport failure: the pipeline in normal operation.
PipeNext ==
  \/ \E t \in Threads : RunCheck(t)
  \/ \E t \in Threads : RunPush(t)
  \/ EbSendCommand
  \/ \E len \in 1..lim.chunk : ReadDataAvailable(len)
  \/ \E ks \in AllKinds : ServerSend(ks)
  \/ \E w \in Workers : DecodeStart(w)
  \/ \E w \in Workers : SplitNext(w)
  \/ \E w \in Workers : FetchHead(w)
  \/ \E w \in Workers : SetTry(w)
  \/ \E w \in Workers : PopAndSend(w)
  \/ \E w \in Workers : Write(w)
  \/ \E w \in Workers : DecodeExit(w)
  \/ CallbackTask

PipeInit ==
  ReadyWith(Limits(PipeCmds, PipePdus + 1, 0, 0, {Plain, Event}, FALSE,
                   {"t1", "t2", "w1"}, TRUE, MaxChunk), {TRUE})

SpecPipe == PipeInit /\ [][PipeNext]_vars

\* The pipeline with two workers on cpuExecutor_ and reads of any size.
PoolInit ==
  ReadyWith(Limits(PoolCmds, PoolPdus + 1, 0, 0, {Plain, Event}, FALSE,
                   {"t1", "w1", "w2"}, FALSE, MaxChunk), {TRUE})

SpecPool == PoolInit /\ [][PipeNext]_vars

\* close() called up to MaxCloses times by two callers on a connection that
\* is in use, without transport failures.
CloseNext ==
  \/ \E t \in Threads : RunCheck(t)
  \/ \E t \in Threads : RunPush(t)
  \/ \E t \in Callers : CloseCheck(t)
  \/ \E t \in Callers : CloseSet(t)
  \/ EbTeardown
  \/ \E t \in Callers : CloseFail(t)
  \/ EbSendCommand
  \/ \E len \in 1..lim.chunk : ReadDataAvailable(len)
  \/ \E ks \in AllKinds : ServerSend(ks)
  \/ \E w \in Workers : DecodeStart(w)
  \/ \E w \in Workers : SplitNext(w)
  \/ \E w \in Workers : FetchHead(w)
  \/ \E w \in Workers : SetTry(w)
  \/ \E w \in Workers : PopAndSend(w)
  \/ \E w \in Workers : Write(w)
  \/ \E w \in Workers : DecodeExit(w)
  \/ CallbackTask

CloseInit ==
  ReadyWith(Limits(CloseCmds, ClosePdus + 1, 0, MaxCloses, {Plain}, FALSE,
                   {"t1", "t2", "w1"}, TRUE, MaxChunk), BOOLEAN)

SpecClose == CloseInit /\ [][CloseNext]_vars

\* The pipeline with a server whose responses may carry an "error" key.
ErrInit ==
  ReadyWith(Limits(ErrCmds, ErrPdus + 1, 0, 0, {Plain, Err}, FALSE, {"t1", "w1"},
                   TRUE, MaxChunk), {TRUE})

SpecErr == ErrInit /\ [][PipeNext]_vars

\* The framer: PDUs of two lengths (values and undecodable bytes), cut into
\* read events of any size up to FrameChunk, so that a read may end inside
\* a header or hold several PDUs.
FrameNext ==
  \/ \E t \in Threads : RunCheck(t)
  \/ \E t \in Threads : RunPush(t)
  \/ EbSendCommand
  \/ \E len \in 1..lim.chunk : ReadDataAvailable(len)
  \/ \E ks \in AllKinds : ServerSend(ks)
  \/ ServerGarbage
  \/ \E w \in Workers : DecodeStart(w)
  \/ \E w \in Workers : SplitNext(w)
  \/ \E w \in Workers : FetchHead(w)
  \/ \E w \in Workers : SetTry(w)
  \/ \E w \in Workers : PopAndSend(w)
  \/ \E w \in Workers : Write(w)
  \/ \E w \in Workers : DecodeExit(w)
  \/ CallbackTask

FrameInit ==
  ReadyWith(Limits(FrameCmds, FramePdus + 1, 0, 0, {Plain, Event}, TRUE,
                   {"t1", "w1"}, FALSE, FrameChunk), {TRUE})

SpecFrame == FrameInit /\ [][FrameNext]_vars

\* ----------------------------------------------------------------- claims
\* What the specification expects of a decoded value: a failure if it has
\* an "error" key, else the value itself.
ExpectedTry(v) ==
  IF "error" \in v.keys
  THEN [st |-> "exception", ex |-> "WatchmanResponseError", val |-> v]
  ELSE [st |-> "value", ex |-> "", val |-> v]

ByDispatcher(e) == e.by = "dispatch"
SlotByDispatcher(e) == e.by = "dispatch" /\ e.to = "slot"
Dispatched == SelectSeq(log, ByDispatcher)
SlotDispatched == SelectSeq(log, SlotByDispatcher)
Responses == SelectSeq(sent, IsResponse)

\* C1: FIFO matching.  While the connection is not broken, the i-th command
\* response the dispatcher delivers goes to the result slot of the i-th
\* command that entered the queue, and carries the i-th command response
\* the server sent; so the slots are fulfilled in enqueue order, however
\* the PDUs were spread over read events.
FifoMatching ==
  ~broken_ =>
    \A i \in 1..Len(SlotDispatched) :
      /\ SlotDispatched[i].cmd = enq[i]
      /\ SlotDispatched[i].try = ExpectedTry(Responses[i])

\* Two commands are queued behind a first whose response was just
\* delivered, and the responses of both wait in the buffer, read at once.
FifoMatchingWitness ==
  /\ ~broken_ /\ Len(commandQ_) = 3 /\ Len(SlotDispatched) = 2
  /\ Len(bufQ_) = 2 * (HdrLen + 2) /\ enq # <<0, 1, 2, 3>>
  /\ \E w \in Workers : pc[w] = "pop"

\* C2: one in flight.  While the connection is not broken and the server
\* has answered only commands that were written, the commands written to
\* the transport are the first commands that entered the queue, each once
\* and in enqueue order; at most one of them has no response delivered yet;
\* and a head of the queue that is not written has its send pending (the
\* task scheduled by run(), or the dispatcher on its way to the write).
OneInFlight ==
  (~broken_ /\ ~early) =>
    /\ Len(written) <= Len(enq)
    /\ written = SubSeq(enq, 1, Len(written))
    /\ Len(written) - Len(SlotDispatched) \in {0, 1}
    /\ (commandQ_ # <<>> /\ front(commandQ_) \notin Range(written)) =>
         \/ SendTask \in Range(ebQ)
         \/ \E w \in Workers : pc[w] = "write" /\ wcmd[w] = front(commandQ_)

\* The dispatcher is about to write a command that a result handler queued
\* by calling run() reentrantly, while callers have queued another.
OneInFlightWitness ==
  /\ ~broken_ /\ ~early
  /\ \E w \in Workers :
       /\ pc[w] = "write" /\ tcmd[w] = wcmd[w]
       /\ Len(commandQ_) = 2 /\ Len(written) = 2

\* C8: wire order.  While the connection is not broken, the deliveries of
\* the dispatcher are, in order, the PDUs the server sent: the i-th delivery
\* is the i-th PDU, to the subscriber if it is a unilateral event, and
\* otherwise to the slot of the k-th command that entered the queue, where
\* k counts the command responses among the first i PDUs.  So an event
\* between two responses is delivered between them and consumes no command.
WireOrder ==
  ~broken_ =>
    \A i \in 1..Len(Dispatched) :
      LET e == Dispatched[i]
          v == sent[i] IN
      IF IsEvent(v)
      THEN e = Sub(ExpectedTry(v), "dispatch")
      ELSE e = Slot(enq[NResponses(SubSeq(sent, 1, i))], ExpectedTry(v), "dispatch")

\* A response, an event and a response, sent in this order after the
\* handshake, were all delivered.
WireOrderWitness ==
  /\ ~broken_ /\ Len(sent) = 4 /\ Len(Dispatched) = 4
  /\ ~IsEvent(sent[2]) /\ IsEvent(sent[3]) /\ ~IsEvent(sent[4])

\* A worker is inside the decode loop from the step that sets decoding_ to
\* the step that clears it.
Decoding(w) == pc[w] # "idle"

\* C6: drain completeness.  When the connection is not broken, no
\* decodeNextResponse task is queued and no worker is inside the decode
\* loop, the buffer holds no complete PDU.
DrainComplete ==
  (~broken_ /\ Alive /\ triggers = 0 /\ \A w \in Workers : ~Decoding(w)) =>
    splitNextPdu(bufQ_) = 0

\* C7: single flight.  At most one worker is inside the decode loop.
SingleDispatcher ==
  Cardinality({w \in Workers : Decoding(w)}) <= 1

\* One worker is inside the loop and a task that ran meanwhile on the
\* other worker found decoding_ set and returned.
SingleDispatcherWitness ==
  /\ skipped > 0 /\ decoding_
  /\ \E w \in Workers : pc[w] = "set"

\* C3: single assignment.  No QueuedCommand promise that is fulfilled
\* already is fulfilled again (here with a server that answers only the
\* commands that were written).
OneAssignment == ~early => dupSets = 0

\* The failure notifications of the subscriber, run or still queued.
IsNotify(e) == e.by = "notify"
Notifications == Len(SelectSeq(log, IsNotify)) + Len(cbQ)

NotifiedOnce ==
  (callback_ /\ ~closing_) => Notifications <= 1

\* C9 as stated: connectPromise_ is fulfilled with a value if and only if
\* the response delivered to the version command has a "capabilities" key
\* (the server answering only the commands that were written).
HandshakeResponse(e) == e.by = "dispatch" /\ e.to = "slot" /\ e.cmd = VersionCmd
VersionDone == VersionCmd \in DOMAIN promise /\ promise[VersionCmd].st # "unset"
RunRejected ==
  [][(nextCmd' = nextCmd + 1 /\ (broken_ \/ sock_ = "null")) =>
       /\ promise'[nextCmd'] =
            Exception(IF broken_ THEN BrokenErr ELSE NoSocketErr)
       /\ UNCHANGED <<commandQ_, ebQ, enq, written, pc, tcmd>>]_vars

\* A run() before connect() has failed with "No socket" and a run() after
\* a failure with "The connection was broken".
RunRejectedWitness ==
  /\ \E c \in DOMAIN promise : promise[c] = Exception(NoSocketErr)
  /\ \E c \in DOMAIN promise : promise[c] = Exception(BrokenErr)
  /\ nfails = 1 /\ enq = <<VersionCmd>>

\* The three parts of "Broken and Closed are terminal", as steps: broken_
\* is never cleared; connectPromise_ gets no value once broken_ is set; no
\* socket is created once close() has set closing_.
BrokenStays == broken_ => broken_'
NoLateSuccess ==
  (broken_ /\ connectPromise_.st # "value") => connectPromise_'.st # "value"
NoOpenAfterClose == closing_ => ~(sock_ = "null" /\ sock_' = "set")

\* C11: Broken and Closed are terminal.  Once broken_ is set it is never
\* cleared and connect()'s future gets no value afterwards, and once close()
\* has been called no transport is opened, not even by a connect() whose
\* socket path is resolved after the close().
TerminalStates ==
  [][BrokenStays /\ NoLateSuccess /\ NoOpenAfterClose]_vars

\* C12: close() is idempotent.  closing_ is never cleared, so the claim is
\* that only a call that finds closing_ clear acts: no close() call goes on
\* to set closing_, tear the transport down and call failQueuedCommands
\* when an earlier call has set closing_ already, and no teardown finds the
\* transport gone.
CloseIdempotent ==
  [][/\ closing_ => closing_'
     /\ \A t \in Callers :
          (pc[t] = "close_set" /\ pc'[t] # "close_set") => ~closing_
     /\ crashed' # "null sock_ in close"]_vars

\* C13: lock discipline.  No result slot is fulfilled with mutex_ held, and
\* no thread locks mutex_ while it holds it (which would leave it stuck at
\* the lock, holding the mutex for good).
LockDiscipline ==
  /\ \A i \in 1..Len(log) : ~UnderMutex(log[i])
  /\ \A w \in Workers : pc[w] # "hung"
  /\ mutex_ = "free"

\* The bytes of the PDUs the server has sent, in order.
Bytes(v) == IF v.ok THEN <<Magic, 2, SumBits(v.keys), v.seq>> ELSE <<Magic, 1, Garbage>>
RECURSIVE Stream(_)
Stream(s) == IF s = <<>> THEN <<>> ELSE Bytes(Head(s)) \o Stream(Tail(s))
\* The first k PDUs were split off; the rest is in the buffer or unread.
SplitOff(k) == Stream(SubSeq(sent, 1, k)) \o bufQ_ \o wire = Stream(sent)
\* The buffer holds the whole of PDU k + 1.
Complete(k) == k < Len(sent) /\ Len(bufQ_) >= Len(Bytes(sent[k + 1]))
\* A step of the dispatcher that has called splitNextPdu.
SplitStep(w) ==
  pc[w] = "loop" /\ (pc'[w] # "loop" \/ (bufQ_' # bufQ_ /\ wire' = wire))

\* C14: fragmentation invariance.  However the stream is cut into read
\* events, what has left the buffer is always a whole number of the PDUs
\* sent; each splitNextPdu call that finds the next PDU complete in the
\* buffer removes exactly that PDU, of its header's length; and each call
\* that finds it incomplete (part of the header, or part of the body)
\* leaves the buffer as it is.
FragmentationInvariance ==
  /\ [](\E k \in 0..Len(sent) : SplitOff(k))
  /\ [][\A w \in Workers : SplitStep(w) =>
          \E k \in 0..Len(sent) :
            /\ SplitOff(k)
            /\ IF Complete(k) THEN bufQ_ = Bytes(sent[k + 1]) \o bufQ_'
               ELSE bufQ_' = bufQ_ /\ pc'[w] = "exit"]_vars

\* An event was split off and delivered; of the next PDU, which has another
\* length, only the first header byte has been read, and the dispatcher
\* has found it not ready and is leaving with the byte still in the buffer.
FragmentationWitness ==
  /\ ~broken_ /\ Len(sent) = 3 /\ IsEvent(sent[2]) /\ ~sent[3].ok
  /\ SplitOff(2) /\ Len(bufQ_) = 1 /\ Len(wire) = 2
  /\ \E w \in Workers : pc[w] = "exit"

\* C15: a command response decoded with an empty queue.  The step of the
\* dispatcher that finds commandQ_ empty marks the connection broken and
\* takes the dispatcher to the exit of the loop, where decoding_ is cleared,
\* with mutex_ released.
EmptyQueueStops ==
  [][\A w \in Workers :
       (pc[w] = "resp" /\ pc'[w] # "resp" /\ commandQ_ = <<>>) =>
         (broken_' /\ pc'[w] = "exit" /\ mutex_' = "free")]_vars

\* The commands whose response was delivered and that left the queue: the
\* dispatcher pops the head after the handler of its result has run.
Popped ==
  Len(SlotDispatched) - Cardinality({w \in Workers : pc[w] \in {"pop", "run_push"}})

\* C16: a response with an "error" key fails the head command only.  With
\* a server that answers only written commands (some answers carrying
\* "error"): the connection is not broken; every response, error or not,
\* went to the command it answers; the only failed slots are those of the
\* commands answered with an error; the answered commands have left the
\* queue; and the command now at the head is written or about to be.
ErrorFailsHeadOnly ==
  ~early =>
    /\ ~broken_
    /\ \A i \in 1..Len(SlotDispatched) :
         /\ SlotDispatched[i].cmd = enq[i]
         /\ SlotDispatched[i].try = ExpectedTry(Responses[i])
    /\ \A c \in DOMAIN promise :
         promise[c].st = "exception" =>
           \E i \in 1..Len(SlotDispatched) :
             enq[i] = c /\ "error" \in Responses[i].keys /\ promise[c].val = Responses[i]
    /\ commandQ_ = SubSeq(enq, Popped + 1, Len(enq))
    /\ (commandQ_ # <<>> /\ Popped = Len(SlotDispatched)) =>
         \/ Head(commandQ_) \in Range(written)
         \/ SendTask \in Range(ebQ)
         \/ \E w \in Workers : pc[w] = "write" /\ wcmd[w] = Head(commandQ_)

\* The first of three queued commands was answered with an error, the
\* second with a value, and the third is written.
ErrorFailsHeadOnlyWitness ==
  /\ ~early /\ ~broken_ /\ commandQ_ = <<3>> /\ written = <<0, 1, 2, 3>>
  /\ promise[1].st = "exception" /\ promise[2].st = "value"
  /\ promise[3].st = "unset"

\* C17: failure propagation is atomic with respect to run().  Whenever the
\* connection is broken the command queue is empty: no command accepted by
\* run() stays queued on a broken connection.
BrokenQueueEmpty == broken_ => commandQ_ = <<>>

\* C18: a handshake response with an "error" key.  The response delivered
\* to the version command is one the server sent; if it has an "error" key,
\* connect()'s future fails with that response and the server's own error
\* in it; and when the future holds the synthesized "no support for
\* capabilities" message, the handshake response had no "error" key.
ServerErrorKept ==
  /\ \A i \in 1..Len(log) :
       HandshakeResponse(log[i]) =>
         LET v == log[i].try.val IN
         /\ v \in Range(sent)
         /\ "error" \in v.keys =>
              /\ connectPromise_.st = "exception"
              /\ connectPromise_.val = v
              /\ connectPromise_.val.error = "server"
  /\ (connectPromise_.st = "exception" /\ connectPromise_.val.error = UpgradeMsg) =>
       \E i \in 1..Len(log) :
         HandshakeResponse(log[i]) /\ "error" \notin log[i].try.val.keys

\* The server answered the version command with an error and without
\* capabilities, and connect() has failed.
ServerErrorKeptWitness ==
  /\ connectPromise_.st = "exception" /\ Len(sent) = 1 /\ sent[1].keys = {"error"}
  /\ \E i \in 1..Len(log) : HandshakeResponse(log[i])

\* C19: between the fulfilment of the head's result slot and
\* popAndSendCommand the queue is not emptied or changed at its head: a
\* dispatcher that has delivered a response and has yet to pop finds the
\* command it answered at the head of a non-empty queue, and pop_front is
\* never called on an empty queue.
PopFindsHead ==
  /\ \A w \in Workers :
       pc[w] \in {"pop", "run_push"} =>
         (commandQ_ # <<>> /\ Head(commandQ_) = wcmd[w])
  /\ crashed # "pop_front on empty commandQ_"

\* C20: a write needs the transport.  sendCommand never reaches its
\* sock_->writeChain (line 237) with sock_ reset: neither the task that
\* run() scheduled nor the dispatcher on its way from popAndSendCommand.
WriteHasSocket ==
  /\ crashed # "null sock_ in sendCommand"
  /\ \A w \in Workers : pc[w] = "write" => sock_ = "set"

====
